---------------------------- MODULE Spec2Model ----------------------------
(***************************************************************************)
(* hanzoai/guard: the three transport adapters that put a sanitizer        *)
(* (hanzo_guard::Guard) between a user and an LLM-backed process:          *)
(*   guard-wrap   src/src/bin/wrap.rs       PTY adapter                    *)
(*   guard-mcp    src/src/bin/mcp_proxy.rs  line-delimited JSON-RPC adapter*)
(*   guard-proxy  src/src/bin/proxy.rs      HTTP reverse proxy adapter     *)
(* One behaviour of the model is one run of one of the binaries.           *)
(***************************************************************************)
EXTENDS Integers, Sequences, FiniteSets, TLC

VARIABLES
    binary,      \* which binary this run is: "wrap", "mcp", "proxy", "cli"
    \* ---- guard-mcp (mcp_proxy.rs main) ----
    mcpPc,       \* per line loop: "read" (blocked in lines()) or "done"
    mcpNRead,    \* per line loop: number of lines taken from the source
    mcpSink,     \* per line loop: ids of the lines written to the sink, in order
    mcpLast,     \* the last line processed: input, gateway calls, what was written
    mcpMain,     \* main thread: "join_in", "join_out", "wait_child", "exited"
    mcpChild,    \* the wrapped server: [state, code, signaled]
    mcpOutOpen,  \* the adapter's own stdout still accepts writes
    mcpExit,     \* exit code of the adapter once mcpMain = "exited"
    \* ---- guard-wrap (wrap.rs main) ----
    ptyRd,       \* per reader thread: "read", "send" (in blocking_send), "done"
    ptyHeld,     \* per reader thread: the chunk it is sending
    ptyNRead,    \* per reader thread: number of chunks read
    ptyBase,     \* chunks the readers had read before the first state
    ptyQ,        \* per direction: the mpsc channel's queue
    ptyTx,       \* per direction: number of live Sender handles of the channel
    ptyEv,       \* event loop: "select", "filter", "wait_child", "exited"
    ptyCur,      \* the chunk the event loop took from a channel and is filtering
    ptyWrote,    \* per direction: ids of the chunks written, in order
    ptyLast,     \* the last chunk processed: text, gateway calls, what was written
    ptyChild,    \* the wrapped command: [state, code, signaled]
    ptyExit,     \* exit code of the adapter once ptyEv = "exited"
    \* ---- guard-proxy (proxy.rs handle_request) ----
    httpPc,      \* "idle", "sanitize_in", "send", "read_body", "sanitize_out", "done"
    httpNReq,    \* number of requests received
    httpReq,     \* the client's request: [headers, body]
    httpInCalls, \* gateway calls made for the request body
    httpClean,   \* sanitized_input, the body to send upstream
    httpUp,      \* the upstream calls made for the request: [headers, body] each
    httpResp,    \* the upstream's response: [status, headers, body, read]
    httpOutCalls,\* gateway calls made for the upstream's response body
    httpReply,   \* the response returned to the client: [status, headers, body]
    \* hanzo-guard (main.rs)
    cliPc,       \* "idle", "args", "stdin", "check", "sanitize", "exited"
    cliArgs,     \* the command line: [src, json, arg]
    cliInput,    \* the input text gathered so far
    cliNLines,   \* number of lines taken from stdin
    cliCalls,    \* gateway calls made
    cliOut,      \* what was printed on stdout, <<>> if nothing
    cliExit      \* the process's exit code once cliPc = "exited"

mcpVars == <<mcpPc, mcpNRead, mcpSink, mcpLast, mcpMain, mcpChild,
             mcpOutOpen, mcpExit>>

ptyVars == <<ptyRd, ptyHeld, ptyNRead, ptyBase, ptyQ, ptyTx, ptyEv, ptyCur, ptyWrote,
             ptyLast, ptyChild, ptyExit>>

httpVars == <<httpPc, httpNReq, httpReq, httpInCalls, httpClean, httpUp, httpResp,
              httpOutCalls, httpReply>>

cliVars == <<cliPc, cliArgs, cliInput, cliNLines, cliCalls, cliOut, cliExit>>

vars == <<binary, mcpVars, ptyVars, httpVars, cliVars>>

(***************************************************************************)
(* Bounds of the model.                                                    *)
(***************************************************************************)
\* lines read by guard-mcp in one run, both line loops together
MaxLines == 2
\* chunks read by guard-wrap in one run, both reader threads together
MaxChunks == 2
\* requests guard-proxy handles in one run
MaxRequests == 1
\* lines hanzo-guard reads from stdin in one run
MaxStdinLines == 2

Dirs == {"input", "output"}

(***************************************************************************)
(* serde_json::Value.  A node is a record [k, key, s, c]: k is the variant *)
(* ("str", "num" for every non-string scalar, "arr", "obj"), key the key   *)
(* under which the node sits in its parent object ("" elsewhere), s the    *)
(* scalar's text, c the children in the map's iteration order.             *)
(***************************************************************************)
Str(key, s) == [k |-> "str", key |-> key, s |-> s, c |-> <<>>]
Num(key, s) == [k |-> "num", key |-> key, s |-> s, c |-> <<>>]
Arr(key, c) == [k |-> "arr", key |-> key, s |-> "", c |-> c]
Obj(key, c) == [k |-> "obj", key |-> key, s |-> "", c |-> c]

\* Value::get / get_mut with a string index: position of the entry, 0 for None
Idx(v, key) ==
    IF v.k = "obj" /\ \E i \in 1..Len(v.c) : v.c[i].key = key
    THEN CHOOSE i \in 1..Len(v.c) : v.c[i].key = key
    ELSE 0

(***************************************************************************)
(* Text on the wire.  A text is [fmt, v]: fmt = "raw" is text that does    *)
(* not parse as JSON (v is a str node holding it); "compact" is what       *)
(* serde_json::to_string prints for v; "spaced" is any other spelling of   *)
(* the same value (extra whitespace).                                      *)
(***************************************************************************)
Raw(s) == [fmt |-> "raw", v |-> Str("", s)]
Json(fmt, v) == [fmt |-> fmt, v |-> v]

\* serde_json::from_str::<Value>(text).is_ok()
Parses(text) == text.fmt # "raw"

\* a serializer that loses the last member of an object or array
to_string_short(v) ==
    [fmt |-> "compact",
     v |-> IF v.k \in {"obj", "arr"} THEN [v EXCEPT !.c = SubSeq(@, 1, Len(@) - 1)]
           ELSE v]

\* serde_json::to_string(&value)
to_string(v) == [fmt |-> "compact", v |-> v]

(***************************************************************************)
(* The sanitizer (hanzo_guard::Guard), known to the adapters only by its   *)
(* contract: sanitize_input / sanitize_output return Clean(text),          *)
(* Redacted{text}, Blocked{reason} or Err.  The outcome of each call is    *)
(* the environment's choice; a run of calls draws them from an oracle.     *)
(***************************************************************************)
Kinds == {"Clean", "Redacted", "Blocked", "Err"}

Mask(text) == "[REDACTED]"

\* the value a sanitize call returns: kind, and the text or reason it carries
Gateway(text, kind) ==
    [kind |-> kind,
     text |-> CASE kind = "Clean" -> text
                [] kind = "Redacted" -> Mask(text)
                [] kind = "Blocked" -> "policy"
                [] OTHER -> "sanitizer failed"]

\* outcome of the i-th call of a run (Clean past the oracle's end)
OrcAt(orc, i) == IF i \in DOMAIN orc THEN orc[i] ELSE "Clean"

\* one gateway call as the run records it: where, which entry point, what
Call(path, dir, text, o) ==
    [path |-> path, dir |-> dir, text |-> text, kind |-> o.kind, ret |-> o.text]

NoCalls == [i |-> 1, calls |-> <<>>]

(***************************************************************************)
(* mcp_proxy.rs: filter_value, the recursive rewrite of string leaves.     *)
(* st = [i, calls] threads the oracle position and the calls made so far;  *)
(* path is the position of the node in the message (child indices).        *)
(***************************************************************************)
SENTINEL == "[BLOCKED]"

\* a variant that does not keep the original on error
McpReplaceErrSentinel(s, o) ==
    CASE o.kind = "Clean" -> o.text
      [] o.kind = "Redacted" -> o.text
      [] OTHER -> SENTINEL

\* what a string leaf becomes after a gateway outcome (mcp_proxy.rs 70-75)
McpReplace(s, o) ==
    CASE o.kind = "Clean" -> o.text
      [] o.kind = "Redacted" -> o.text
      [] o.kind = "Blocked" -> SENTINEL
      [] OTHER -> s

\* first loop over a map: entries keyed content / text / value
Selected(item) == item.key \in {"content", "text", "value"}

\* second loop over a map: entries whose value is an object or an array
Nested(item) == item.k \in {"obj", "arr"}

RECURSIVE filter_value(_, _, _, _, _), FilterItems(_, _, _, _, _, _, _)

filter_value(value, path, dir, orc, st) ==
    CASE value.k = "str" ->
            LET o == Gateway(value.s, OrcAt(orc, st.i))
            IN  [v |-> [value EXCEPT !.s = McpReplace(value.s, o)],
                 st |-> [i |-> st.i + 1,
                         calls |-> Append(st.calls, Call(path, dir, value.s, o))]]
      [] value.k = "arr" ->
            LET r == FilterItems(value.c, 1, "all", path, dir, orc, st)
            IN  [v |-> [value EXCEPT !.c = r.c], st |-> r.st]
      [] value.k = "obj" ->
            LET r1 == FilterItems(value.c, 1, "selected", path, dir, orc, st)
                r2 == FilterItems(r1.c, 1, "nested", path, dir, orc, r1.st)
            IN  [v |-> [value EXCEPT !.c = r2.c], st |-> r2.st]
      [] OTHER -> [v |-> value, st |-> st]

\* items j.. of c in order; pass says which of them filter_value is applied to
FilterItems(c, j, pass, path, dir, orc, st) ==
    IF j > Len(c) THEN [c |-> c, st |-> st]
    ELSE LET hit == CASE pass = "all" -> TRUE
                      [] pass = "selected" -> Selected(c[j])
                      [] OTHER -> Nested(c[j])
             r == IF hit THEN filter_value(c[j], Append(path, j), dir, orc, st)
                         ELSE [v |-> c[j], st |-> st]
         IN  FilterItems([c EXCEPT ![j] = r.v], j + 1, pass, path, dir, orc, r.st)

(***************************************************************************)
(* mcp_proxy.rs: filter_jsonrpc, one line through the adapter.             *)
(***************************************************************************)
\* a variant that treats every other method as one with a "content" payload
MethodFieldAny(method) ==
    CASE method = "tools/call" -> "arguments"
      [] method = "completion/complete" -> "prompt"
      [] method = "sampling/createMessage" -> "messages"
      [] OTHER -> "content"

\* the params field a method's payload sits in; "" when the method has none
MethodField(method) ==
    CASE method = "tools/call" -> "arguments"
      [] method = "completion/complete" -> "prompt"
      [] method = "sampling/createMessage" -> "messages"
      [] OTHER -> ""

\* msg.get("method").and_then(|m| m.as_str()), "" for None
MethodOf(msg) ==
    LET mi == Idx(msg, "method")
    IN  IF mi # 0 /\ msg.c[mi].k = "str" THEN msg.c[mi].s ELSE ""

\* path <<params, field>> of the payload the method dispatch filters, <<>> if none
MethodPath(msg) ==
    LET field == MethodField(MethodOf(msg))
        pi == Idx(msg, "params")
        fi == IF field # "" /\ pi # 0 THEN Idx(msg.c[pi], field) ELSE 0
    IN  IF fi # 0 THEN <<pi, fi>> ELSE <<>>

\* a variant that filters the whole message, whatever its top level is
filter_jsonrpc_deep(line, dir, orc) ==
    IF ~Parses(line) THEN [line |-> line, calls |-> <<>>]
    ELSE LET r == filter_value(line.v, <<>>, dir, orc, NoCalls)
         IN  [line |-> to_string(r.v), calls |-> r.st.calls]

filter_jsonrpc(line, dir, orc) ==
    IF ~Parses(line) THEN [line |-> line, calls |-> <<>>]
    ELSE LET msg == line.v
             mp == MethodPath(msg)
             r1 == IF mp # <<>>
                   THEN filter_value(msg.c[mp[1]].c[mp[2]], mp, dir, orc, NoCalls)
                   ELSE [v |-> msg, st |-> NoCalls]
             msg1 == IF mp # <<>> THEN [msg EXCEPT !.c[mp[1]].c[mp[2]] = r1.v]
                     ELSE msg
             ri == Idx(msg1, "result")
             r2 == IF ri # 0
                   THEN filter_value(msg1.c[ri], <<ri>>, dir, orc, r1.st)
                   ELSE [v |-> msg1, st |-> r1.st]
             msg2 == IF ri # 0 THEN [msg1 EXCEPT !.c[ri] = r2.v] ELSE msg1
         IN  [line |-> to_string(msg2), calls |-> r2.st.calls]

\* number of gateway calls filter_jsonrpc makes for a line
McpNCalls(line) == Len(filter_jsonrpc(line, "input", <<>>).calls)

(***************************************************************************)
(* Lines the environment sends to guard-mcp.                               *)
(***************************************************************************)
Envelope(method, params) ==
    Obj("", <<Num("id", "1"), Str("jsonrpc", "2.0"), Str("method", method), params>>)

\* tools/call whose arguments hold the payload directly under "content"
ToolCallContent ==
    Envelope("tools/call",
        Obj("params", <<Obj("arguments", <<Str("content", "SECRET")>>),
                        Str("name", "write")>>))
\* tools/call whose argument is a string under another key
ToolCallPath ==
    Envelope("tools/call",
        Obj("params", <<Obj("arguments", <<Str("path", "SECRET")>>),
                        Str("name", "read")>>))
\* tools/call whose "content" argument is an array of strings
ToolCallList ==
    Envelope("tools/call",
        Obj("params", <<Obj("arguments", <<Arr("content", <<Str("", "SECRET")>>)>>),
                        Str("name", "write")>>))
CompletePrompt ==
    Envelope("completion/complete", Obj("params", <<Str("prompt", "SECRET")>>))
CreateMessage ==
    Envelope("sampling/createMessage",
        Obj("params", <<Arr("messages",
            <<Obj("", <<Obj("content", <<Str("text", "SECRET"), Str("type", "text")>>),
                        Str("role", "user")>>)>>)>>))
\* a tool result in the MCP shape: result.content[].text
ToolResult ==
    Obj("", <<Num("id", "1"), Str("jsonrpc", "2.0"),
              Obj("result", <<Arr("content",
                    <<Obj("", <<Str("text", "SECRET"), Str("type", "text")>>)>>),
                    Num("isError", "false")>>)>>)
\* a response whose result is a bare string
StringResult ==
    Obj("", <<Num("id", "1"), Str("jsonrpc", "2.0"), Str("result", "SECRET")>>)
\* a method the dispatch does not know
Ping == Envelope("ping", Obj("params", <<Str("content", "SECRET")>>))
\* a message that has both an unknown method and a result
PingResult ==
    Obj("", <<Num("id", "1"), Str("jsonrpc", "2.0"), Str("method", "ping"),
              Obj("params", <<Str("content", "SECRET")>>), Str("result", "SECRET")>>)
\* a message that has both a known method and a result
ToolCallResult ==
    Obj("", <<Num("id", "1"), Str("jsonrpc", "2.0"), Str("method", "tools/call"),
              Obj("params", <<Obj("arguments", <<Str("content", "SECRET")>>),
                              Str("name", "write")>>),
              Str("result", "SECRET")>>)
\* a batch: the top level is an array
Batch == Arr("", <<ToolCallContent>>)

\* a line that is one JSON string
BareString == Str("", "SECRET")

McpValues == {ToolCallContent, ToolCallPath, ToolCallList, CompletePrompt,
              CreateMessage, ToolResult, StringResult, Ping, PingResult,
              ToolCallResult, Batch, BareString}

McpLines == {Json("compact", v) : v \in McpValues}
              \cup {Json("spaced", ToolCallContent), Raw("SECRET {")}

\* The n-th line of a run (both loops together): the first ranges over all of
\* McpLines; the adapter keeps no state from one line to the next, so the lines
\* after it range over a smaller set.
McpFollowLines == {Json("compact", ToolCallContent), Raw("SECRET {")}

McpLinesAt(n) == IF n = 1 THEN McpLines ELSE McpFollowLines

(***************************************************************************)
(* guard-mcp: main (mcp_proxy.rs 147-212).                                 *)
(***************************************************************************)
ExitCodes == {0, 3}

\* what child.wait() can report: exit(code), or killed by a signal (no code)
ExitStatuses == {[code |-> c, signaled |-> FALSE] : c \in ExitCodes}
                  \cup {[code |-> 0, signaled |-> TRUE]}

Running == [state |-> "running", code |-> 0, signaled |-> FALSE]

NoLine == Raw("")
NoEvent == [dir |-> "none", id |-> 0, line |-> NoLine, calls |-> <<>>, out |-> <<>>]

McpIdle ==
    /\ mcpPc = [d \in Dirs |-> "done"]
    /\ mcpNRead = [d \in Dirs |-> 0]
    /\ mcpSink = [d \in Dirs |-> <<>>]
    /\ mcpLast = NoEvent
    /\ mcpMain = "exited"
    /\ mcpChild = Running
    /\ mcpOutOpen = TRUE
    /\ mcpExit = 0

\* after the child is spawned and both line-loop threads are started
McpInit ==
    /\ mcpPc = [d \in Dirs |-> "read"]
    /\ mcpNRead = [d \in Dirs |-> 0]
    /\ mcpSink = [d \in Dirs |-> <<>>]
    /\ mcpLast = NoEvent
    /\ mcpMain = "join_in"
    /\ mcpChild = Running
    /\ mcpOutOpen = TRUE
    /\ mcpExit = 0

McpLive == binary = "mcp" /\ mcpMain # "exited"

\* writeln! to the sink succeeds: child_stdin while the child lives, our stdout
\* while it is open (173, 196)
McpSinkOk(d) ==
    IF d = "input" THEN mcpChild.state = "running" ELSE mcpOutOpen

\* one iteration of a line loop: lines() yields a line, filter_jsonrpc, writeln!,
\* flush; a failed writeln! ends the loop (165-177, 188-200)
McpLine(d) ==
    /\ McpLive
    /\ mcpPc[d] = "read"
    /\ mcpNRead["input"] + mcpNRead["output"] < MaxLines
    /\ \E line \in McpLinesAt(mcpNRead["input"] + mcpNRead["output"] + 1) :
       \E orc \in [1..McpNCalls(line) -> Kinds] :
          LET r == filter_jsonrpc(line, d, orc)
              ok == McpSinkOk(d)
              id == mcpNRead[d] + 1
          IN  /\ mcpLast' = [dir |-> d, id |-> id, line |-> line,
                             calls |-> r.calls,
                             out |-> IF ok THEN <<r.line>> ELSE <<>>]
              /\ mcpSink' = [mcpSink EXCEPT ![d] = IF ok THEN Append(@, id) ELSE @]
              /\ mcpPc' = [mcpPc EXCEPT ![d] = IF ok THEN "read" ELSE "done"]
    /\ mcpNRead' = [mcpNRead EXCEPT ![d] = @ + 1]
    /\ UNCHANGED <<binary, cliVars, ptyVars, httpVars, mcpMain, mcpChild, mcpOutOpen, mcpExit>>

\* lines() ends: end of stream on our stdin, or on the child's stdout once the
\* child is gone (map_while stops at None)
McpEof(d) ==
    /\ McpLive
    /\ mcpPc[d] = "read"
    /\ d = "output" => mcpChild.state = "exited"
    /\ mcpPc' = [mcpPc EXCEPT ![d] = "done"]
    /\ UNCHANGED <<binary, cliVars, ptyVars, httpVars, mcpNRead, mcpSink, mcpLast, mcpMain, mcpChild,
                   mcpOutOpen, mcpExit>>

\* lines() yields Err for a line that is not UTF-8: map_while(Result::ok) ends
\* the loop and the line is consumed
McpReadUndecodable(d) ==
    /\ McpLive
    /\ mcpPc[d] = "read"
    /\ mcpNRead["input"] + mcpNRead["output"] < MaxLines
    /\ mcpNRead' = [mcpNRead EXCEPT ![d] = @ + 1]
    /\ mcpPc' = [mcpPc EXCEPT ![d] = "done"]
    /\ UNCHANGED <<binary, cliVars, ptyVars, httpVars, mcpSink, mcpLast, mcpMain, mcpChild, mcpOutOpen,
                   mcpExit>>

\* the wrapped server terminates
McpChildExit ==
    /\ McpLive
    /\ mcpChild.state = "running"
    /\ \E s \in ExitStatuses :
          mcpChild' = [state |-> "exited", code |-> s.code, signaled |-> s.signaled]
    /\ UNCHANGED <<binary, cliVars, ptyVars, httpVars, mcpPc, mcpNRead, mcpSink, mcpLast, mcpMain,
                   mcpOutOpen, mcpExit>>

\* whoever reads the adapter's stdout goes away
McpStdoutClosed ==
    /\ McpLive
    /\ mcpOutOpen
    /\ mcpOutOpen' = FALSE
    /\ UNCHANGED <<binary, cliVars, ptyVars, httpVars, mcpPc, mcpNRead, mcpSink, mcpLast, mcpMain,
                   mcpChild, mcpExit>>

\* stdin_handle.join() (204)
McpJoinIn ==
    /\ McpLive
    /\ mcpMain = "join_in"
    /\ mcpPc["input"] = "done"
    /\ mcpMain' = "join_out"
    /\ UNCHANGED <<binary, cliVars, ptyVars, httpVars, mcpPc, mcpNRead, mcpSink, mcpLast, mcpChild,
                   mcpOutOpen, mcpExit>>

\* stdout_handle.join() (205)
McpJoinOut ==
    /\ McpLive
    /\ mcpMain = "join_out"
    /\ mcpPc["output"] = "done"
    /\ mcpMain' = "wait_child"
    /\ UNCHANGED <<binary, cliVars, ptyVars, httpVars, mcpPc, mcpNRead, mcpSink, mcpLast, mcpChild,
                   mcpOutOpen, mcpExit>>

\* the adapter's exit code: exit(code) if status.code() is Some, else main returns
McpExitCode(status) == IF status.signaled THEN 0 ELSE status.code

\* child.wait(), then process exit (208-212)
McpWaitChild ==
    /\ McpLive
    /\ mcpMain = "wait_child"
    /\ mcpChild.state = "exited"
    /\ mcpMain' = "exited"
    /\ mcpExit' = McpExitCode(mcpChild)
    /\ UNCHANGED <<binary, cliVars, ptyVars, httpVars, mcpPc, mcpNRead, mcpSink, mcpLast, mcpChild,
                   mcpOutOpen>>

McpNext ==
    \/ \E d \in Dirs : McpLine(d)
    \/ \E d \in Dirs : McpEof(d)
    \/ \E d \in Dirs : McpReadUndecodable(d)
    \/ McpChildExit
    \/ McpStdoutClosed
    \/ McpJoinIn
    \/ McpJoinOut
    \/ McpWaitChild

(***************************************************************************)
(* wrap.rs: filter_text, one chunk through the gateway.                    *)
(***************************************************************************)
\* text.trim().is_empty()
IsBlank(text) == text \in {"", " ", "\n"}

\* a variant that lets a blocked chunk through
filter_text_pass(text, dir, kind) ==
    IF IsBlank(text) THEN [text |-> text, calls |-> <<>>]
    ELSE LET o == Gateway(text, kind)
         IN  [text |-> IF o.kind \in {"Clean", "Redacted"} THEN o.text ELSE text,
              calls |-> <<Call(<<>>, dir, text, o)>>]

\* The chunk's filtered text and the gateway calls made for it; kind is the
\* outcome the sanitizer gives if it is called.
filter_text(text, dir, kind) ==
    IF IsBlank(text) THEN [text |-> text, calls |-> <<>>]
    ELSE LET o == Gateway(text, kind)
         IN  [text |-> CASE o.kind = "Clean" -> o.text
                         [] o.kind = "Redacted" -> o.text
                         [] o.kind = "Blocked" -> ""
                         [] OTHER -> text,
              calls |-> <<Call(<<>>, dir, text, o)>>]

\* the texts handed to write_all / print! for a filtered chunk (169, 179)
PtyWrite(filtered) == IF filtered # "" THEN <<filtered>> ELSE <<>>

(***************************************************************************)
(* guard-wrap: main (wrap.rs 113-192).                                     *)
(***************************************************************************)
\* mpsc::channel::<String>(100)
ChannelCapacity == 100

\* what one read() of stdin or of the PTY master can return, decoded
PtyTexts == {"SECRET", " "}

NoChunk == [id |-> 0, text |-> ""]
NoCur == [dir |-> "none", id |-> 0, text |-> ""]
NoChunkEvent ==
    [dir |-> "none", id |-> 0, text |-> "", calls |-> <<>>, out |-> <<>>,
     failed |-> FALSE]

PtyIdle ==
    /\ ptyRd = [d \in Dirs |-> "done"]
    /\ ptyHeld = [d \in Dirs |-> NoChunk]
    /\ ptyNRead = [d \in Dirs |-> 0]
    /\ ptyBase = 0
    /\ ptyQ = [d \in Dirs |-> <<>>]
    /\ ptyTx = [d \in Dirs |-> 0]
    /\ ptyEv = "exited"
    /\ ptyCur = NoCur
    /\ ptyWrote = [d \in Dirs |-> <<>>]
    /\ ptyLast = NoChunkEvent
    /\ ptyChild = Running
    /\ ptyExit = 0

\* After the child is spawned, the channels are made and the reader threads are
\* started.  The stdin channel has two Senders: stdin_tx, which main keeps, and
\* stdin_tx_clone, moved into the stdin thread (114, 122).  stdout_tx itself is
\* moved into the PTY thread (141).
PtyInit ==
    /\ ptyRd = [d \in Dirs |-> "read"]
    /\ ptyHeld = [d \in Dirs |-> NoChunk]
    /\ ptyNRead = [d \in Dirs |-> 0]
    /\ ptyBase = 0
    /\ ptyQ = [d \in Dirs |-> <<>>]
    /\ ptyTx = [d \in Dirs |-> IF d = "input" THEN 2 ELSE 1]
    /\ ptyEv = "select"
    /\ ptyCur = NoCur
    /\ ptyWrote = [d \in Dirs |-> <<>>]
    /\ ptyLast = NoChunkEvent
    /\ ptyChild = Running
    /\ ptyExit = 0

\* The same, later: the stdin thread has read and sent ChannelCapacity - 1
\* whitespace-only chunks (a run of pasted blank lines) and the event loop has
\* not been polled yet, so all of them wait in the stdin channel.
PtyBacklog ==
    [i \in 1..(ChannelCapacity - 1) |-> [id |-> i, text |-> " "]]

PtyInitBacklog ==
    /\ ptyRd = [d \in Dirs |-> "read"]
    /\ ptyHeld = [d \in Dirs |-> NoChunk]
    /\ ptyNRead = [d \in Dirs |-> IF d = "input" THEN Len(PtyBacklog) ELSE 0]
    /\ ptyBase = Len(PtyBacklog)
    /\ ptyQ = [d \in Dirs |-> IF d = "input" THEN PtyBacklog ELSE <<>>]
    /\ ptyTx = [d \in Dirs |-> IF d = "input" THEN 2 ELSE 1]
    /\ ptyEv = "select"
    /\ ptyCur = NoCur
    /\ ptyWrote = [d \in Dirs |-> <<>>]
    /\ ptyLast = NoChunkEvent
    /\ ptyChild = Running
    /\ ptyExit = 0

PtyLive == binary = "wrap" /\ ptyEv # "exited"

\* a reader thread's read() returns n > 0 bytes (127-130, 146-149)
PtyRead(d) ==
    /\ PtyLive
    /\ ptyRd[d] = "read"
    /\ ptyNRead["input"] + ptyNRead["output"] < ptyBase + MaxChunks
    /\ \E text \in PtyTexts :
          ptyHeld' = [ptyHeld EXCEPT ![d] = [id |-> ptyNRead[d] + 1, text |-> text]]
    /\ ptyNRead' = [ptyNRead EXCEPT ![d] = @ + 1]
    /\ ptyRd' = [ptyRd EXCEPT ![d] = "send"]
    /\ UNCHANGED <<binary, cliVars, mcpVars, httpVars, ptyBase, ptyQ, ptyTx, ptyEv, ptyCur, ptyWrote, ptyLast,
                   ptyChild, ptyExit>>

\* a variant whose channel hands out the newest chunk first
PtySendFront(d) ==
    /\ PtyLive
    /\ ptyRd[d] = "send"
    /\ Len(ptyQ[d]) < ChannelCapacity
    /\ ptyQ' = [ptyQ EXCEPT ![d] = <<ptyHeld[d]>> \o @]
    /\ ptyHeld' = [ptyHeld EXCEPT ![d] = NoChunk]
    /\ ptyRd' = [ptyRd EXCEPT ![d] = "read"]
    /\ UNCHANGED <<binary, cliVars, mcpVars, httpVars, ptyBase, ptyNRead, ptyTx, ptyEv, ptyCur, ptyWrote,
                   ptyLast, ptyChild, ptyExit>>

\* a variant whose channel overwrites its newest chunk when it is full
PtySendOverwrite(d) ==
    /\ PtyLive
    /\ ptyRd[d] = "send"
    /\ ptyQ' = [ptyQ EXCEPT ![d] = IF Len(@) < ChannelCapacity
                                   THEN Append(@, ptyHeld[d])
                                   ELSE [@ EXCEPT ![ChannelCapacity] = ptyHeld[d]]]
    /\ ptyHeld' = [ptyHeld EXCEPT ![d] = NoChunk]
    /\ ptyRd' = [ptyRd EXCEPT ![d] = "read"]
    /\ UNCHANGED <<binary, cliVars, mcpVars, httpVars, ptyBase, ptyNRead, ptyTx, ptyEv,
                   ptyCur, ptyWrote, ptyLast, ptyChild, ptyExit>>

\* blocking_send returns once the channel has room; it cannot fail while the
\* Receiver lives, and main keeps both Receivers until the process exits (131, 150)
PtySend(d) ==
    /\ PtyLive
    /\ ptyRd[d] = "send"
    /\ Len(ptyQ[d]) < ChannelCapacity
    /\ ptyQ' = [ptyQ EXCEPT ![d] = Append(@, ptyHeld[d])]
    /\ ptyHeld' = [ptyHeld EXCEPT ![d] = NoChunk]
    /\ ptyRd' = [ptyRd EXCEPT ![d] = "read"]
    /\ UNCHANGED <<binary, cliVars, mcpVars, httpVars, ptyBase, ptyNRead, ptyTx, ptyEv, ptyCur, ptyWrote,
                   ptyLast, ptyChild, ptyExit>>

\* read() returns Ok(0) or Err: the thread ends and drops its Sender.  The PTY
\* master reports it once the child is gone (128, 135, 147, 154)
PtyEof(d) ==
    /\ PtyLive
    /\ ptyRd[d] = "read"
    /\ d = "output" => ptyChild.state = "exited"
    /\ ptyRd' = [ptyRd EXCEPT ![d] = "done"]
    /\ ptyTx' = [ptyTx EXCEPT ![d] = @ - 1]
    /\ UNCHANGED <<binary, cliVars, mcpVars, httpVars, ptyBase, ptyHeld, ptyNRead, ptyQ, ptyEv, ptyCur,
                   ptyWrote, ptyLast, ptyChild, ptyExit>>

\* the wrapped command terminates
PtyChildExit ==
    /\ PtyLive
    /\ ptyChild.state = "running"
    /\ \E s \in ExitStatuses :
          ptyChild' = [state |-> "exited", code |-> s.code, signaled |-> s.signaled]
    /\ UNCHANGED <<binary, cliVars, mcpVars, httpVars, ptyBase, ptyRd, ptyHeld, ptyNRead, ptyQ, ptyTx, ptyEv,
                   ptyCur, ptyWrote, ptyLast, ptyExit>>

\* rx.recv() resolves to None: the queue is empty and every Sender is dropped
RecvNone(d) == ptyQ[d] = <<>> /\ ptyTx[d] = 0

\* tokio::select! (165-185): the branch of a recv() that yields Some(text) runs;
\* a recv() that yields None disables its branch; else runs when both are disabled
PtySelect ==
    /\ PtyLive
    /\ ptyEv = "select"
    /\ IF \A d \in Dirs : RecvNone(d)
       THEN /\ ptyEv' = "wait_child"
            /\ UNCHANGED <<ptyQ, ptyCur>>
       ELSE \E d \in Dirs :
              /\ ptyQ[d] # <<>>
              /\ ptyCur' = [dir |-> d, id |-> Head(ptyQ[d]).id,
                            text |-> Head(ptyQ[d]).text]
              /\ ptyQ' = [ptyQ EXCEPT ![d] = Tail(@)]
              /\ ptyEv' = "filter"
    /\ UNCHANGED <<binary, cliVars, mcpVars, httpVars, ptyBase, ptyRd, ptyHeld, ptyNRead, ptyTx, ptyWrote,
                   ptyLast, ptyChild, ptyExit>>

\* writer.write_all on the PTY master can fail once the child is gone (170);
\* print! goes to the adapter's stdout (180)
WriteMayFail(d, out) == d = "input" /\ out # <<>> /\ ptyChild.state = "exited"

\* the body of the branch taken: filter_text returns, the text is written unless
\* empty, and a failed write_all leaves the loop (168-174, 178-182)
PtyFilter ==
    /\ PtyLive
    /\ ptyEv = "filter"
    /\ \E kind \in Kinds :
          LET d == ptyCur.dir
              r == filter_text(ptyCur.text, d, kind)
              out == PtyWrite(r.text)
          IN  \E failed \in (IF WriteMayFail(d, out) THEN BOOLEAN ELSE {FALSE}) :
                /\ ptyLast' = [dir |-> d, id |-> ptyCur.id, text |-> ptyCur.text,
                               calls |-> r.calls, out |-> out, failed |-> failed]
                /\ ptyWrote' = [ptyWrote EXCEPT
                                  ![d] = IF out # <<>> /\ ~failed
                                         THEN Append(@, ptyCur.id) ELSE @]
                /\ ptyEv' = IF failed THEN "wait_child" ELSE "select"
    /\ ptyCur' = NoCur
    /\ UNCHANGED <<binary, cliVars, mcpVars, httpVars, ptyBase, ptyRd, ptyHeld, ptyNRead, ptyQ, ptyTx, ptyChild,
                   ptyExit>>

\* status.exit_code() as i32 (191)
PtyExitCode(status) == IF status.signaled THEN 1 ELSE status.code

\* child.wait(), then std::process::exit (190-191)
PtyWaitChild ==
    /\ PtyLive
    /\ ptyEv = "wait_child"
    /\ ptyChild.state = "exited"
    /\ ptyEv' = "exited"
    /\ ptyExit' = PtyExitCode(ptyChild)
    /\ UNCHANGED <<binary, cliVars, mcpVars, httpVars, ptyBase, ptyRd, ptyHeld, ptyNRead, ptyQ, ptyTx, ptyCur,
                   ptyWrote, ptyLast, ptyChild>>

PtyNext ==
    \/ \E d \in Dirs : PtyRead(d)
    \/ \E d \in Dirs : PtySend(d)
    \/ \E d \in Dirs : PtyEof(d)
    \/ PtyChildExit
    \/ PtySelect
    \/ PtyFilter
    \/ PtyWaitChild

(***************************************************************************)
(* proxy.rs: sanitize_json_messages and the two body sanitizers.           *)
(* A result is [v, st, err]: err is "" for Ok(()), else the Err's text.    *)
(***************************************************************************)
RECURSIVE sanitize_json_messages(_, _, _, _, _), SjmItems(_, _, _, _, _, _),
          SjmFields(_, _, _, _, _, _, _)

\* a variant that stores the sanitized text as a fresh value, losing the key
SjmStringRekeyed(map, i, path, dir, orc, st) ==
    LET o == Gateway(map.c[i].s, OrcAt(orc, st.i))
        st1 == [i |-> st.i + 1,
                calls |-> Append(st.calls, Call(Append(path, i), dir, map.c[i].s, o))]
    IN  IF o.kind \in {"Clean", "Redacted"}
        THEN [v |-> [map EXCEPT !.c[i] = Str("", o.text)], st |-> st1, err |-> ""]
        ELSE [v |-> map, st |-> st1, err |-> o.text]

\* a string field through the gateway: rewritten, or the Err returned (161-171,
\* 181-191)
SjmString(map, i, path, dir, orc, st) ==
    LET o == Gateway(map.c[i].s, OrcAt(orc, st.i))
        st1 == [i |-> st.i + 1,
                calls |-> Append(st.calls, Call(Append(path, i), dir, map.c[i].s, o))]
    IN  IF o.kind \in {"Clean", "Redacted"}
        THEN [v |-> [map EXCEPT !.c[i].s = o.text], st |-> st1, err |-> ""]
        ELSE [v |-> map, st |-> st1, err |-> o.text]

\* map.get_mut("content"): a string is sanitized, an array's items are visited
\* (159-177)
SjmContent(map, path, dir, orc, st) ==
    LET ci == Idx(map, "content")
    IN  IF ci = 0 THEN [v |-> map, st |-> st, err |-> ""]
        ELSE IF map.c[ci].k = "str" THEN SjmString(map, ci, path, dir, orc, st)
        ELSE IF map.c[ci].k = "arr"
        THEN LET r == SjmItems(map.c[ci].c, 1, Append(path, ci), dir, orc, st)
             IN  [v |-> [map EXCEPT !.c[ci].c = r.c], st |-> r.st, err |-> r.err]
        ELSE [v |-> map, st |-> st, err |-> ""]

\* if let Some(Value::String(text)) = map.get_mut("text") (180-192)
SjmText(map, path, dir, orc, st) ==
    LET ti == Idx(map, "text")
    IN  IF ti # 0 /\ map.c[ti].k = "str" THEN SjmString(map, ti, path, dir, orc, st)
        ELSE [v |-> map, st |-> st, err |-> ""]

\* the fields recursed into, in the order of the code (195-206)
SjmRecurseKeys == <<"messages", "choices", "message", "delta">>

sanitize_json_messages(json, path, dir, orc, st) ==
    CASE json.k = "obj" ->
            LET a1 == SjmContent(json, path, dir, orc, st)
                a2 == IF a1.err # "" THEN a1
                      ELSE SjmText(a1.v, path, dir, orc, a1.st)
            IN  IF a2.err # "" THEN a2
                ELSE SjmFields(a2.v, SjmRecurseKeys, 1, path, dir, orc, a2.st)
      [] json.k = "arr" ->
            LET r == SjmItems(json.c, 1, path, dir, orc, st)
            IN  [v |-> [json EXCEPT !.c = r.c], st |-> r.st, err |-> r.err]
      [] OTHER -> [v |-> json, st |-> st, err |-> ""]

\* for item in arr { sanitize_json_messages(item)? }
SjmItems(c, j, path, dir, orc, st) ==
    IF j > Len(c) THEN [c |-> c, st |-> st, err |-> ""]
    ELSE LET r == sanitize_json_messages(c[j], Append(path, j), dir, orc, st)
         IN  IF r.err # "" THEN [c |-> c, st |-> r.st, err |-> r.err]
             ELSE SjmItems([c EXCEPT ![j] = r.v], j + 1, path, dir, orc, r.st)

\* if let Some(x) = map.get_mut(key) { sanitize_json_messages(x)? } for keys n..
SjmFields(map, keys, n, path, dir, orc, st) ==
    IF n > Len(keys) THEN [v |-> map, st |-> st, err |-> ""]
    ELSE LET i == Idx(map, keys[n])
         IN  IF i = 0 THEN SjmFields(map, keys, n + 1, path, dir, orc, st)
             ELSE LET r == sanitize_json_messages(map.c[i], Append(path, i), dir,
                                                  orc, st)
                  IN  IF r.err # "" THEN [v |-> map, st |-> r.st, err |-> r.err]
                      ELSE SjmFields([map EXCEPT !.c[i] = r.v], keys, n + 1, path,
                                     dir, orc, r.st)

\* a variant that forwards a plain-text body whatever the outcome
PlainVerdictOpen(o) == [ok |-> TRUE, body |-> Raw(o.text), err |-> ""]

\* What the adapter does with the outcome of the direct call for a body that is
\* not JSON (128-133, 145-150)
PlainVerdict(o) ==
    IF o.kind \in {"Clean", "Redacted"}
    THEN [ok |-> TRUE, body |-> Raw(o.text), err |-> ""]
    ELSE [ok |-> FALSE, body |-> Raw(""), err |-> o.text]

\* Result<String, String> of a body sanitizer, with the calls it made
SanitizeBody(body, dir, orc) ==
    IF Parses(body)
    THEN LET r == sanitize_json_messages(body.v, <<>>, dir, orc, NoCalls)
         IN  IF r.err # ""
             THEN [ok |-> FALSE, body |-> Raw(""), err |-> r.err, calls |-> r.st.calls]
             ELSE [ok |-> TRUE, body |-> to_string(r.v), err |-> "",
                   calls |-> r.st.calls]
    ELSE LET o == Gateway(body.v.s, OrcAt(orc, 1))
             p == PlainVerdict(o)
         IN  [ok |-> p.ok, body |-> p.body, err |-> p.err,
              calls |-> <<Call(<<>>, dir, body.v.s, o)>>]

\* a variant that forwards the original body when a gateway call refuses it
sanitize_llm_request_open(body, orc) ==
    LET r == SanitizeBody(body, "input", orc)
    IN  IF r.ok THEN r ELSE [ok |-> TRUE, body |-> body, err |-> "", calls |-> r.calls]

sanitize_llm_request(body, orc) == SanitizeBody(body, "input", orc)

\* a variant that sends the response body to the input entry point
sanitize_llm_response_in(body, orc) == SanitizeBody(body, "input", orc)

sanitize_llm_response(body, orc) == SanitizeBody(body, "output", orc)

\* number of gateway calls a body can need (all of them, when none fails)
HttpNCalls(body) == Len(SanitizeBody(body, "input", <<>>).calls)

(***************************************************************************)
(* Length in bytes of a text, for Content-Length.                          *)
(***************************************************************************)
RECURSIVE JsonLen(_), JsonLenItems(_, _, _)

JsonLen(v) ==
    CASE v.k = "str" -> Len(v.s) + 2
      [] v.k = "num" -> Len(v.s)
      [] v.k = "arr" -> 2 + JsonLenItems(v.c, 1, FALSE)
      [] OTHER -> 2 + JsonLenItems(v.c, 1, TRUE)

JsonLenItems(c, j, keyed) ==
    IF j > Len(c) THEN 0
    ELSE (IF j > 1 THEN 1 ELSE 0) + (IF keyed THEN Len(c[j].key) + 3 ELSE 0)
           + JsonLen(c[j]) + JsonLenItems(c, j + 1, keyed)

TextLen(text) ==
    CASE text.fmt = "raw" -> Len(text.v.s)
      [] text.fmt = "compact" -> JsonLen(text.v)
      [] OTHER -> JsonLen(text.v) + 1

\* body_str.is_empty()
IsEmpty(text) == text.fmt = "raw" /\ text.v.s = ""

(***************************************************************************)
(* guard-proxy: handle_request (proxy.rs 27-117), one request at a time.   *)
(* Requests on other connections run the same handler and share only the   *)
(* upstream URL and the sanitizer handle.                                  *)
(***************************************************************************)
Header(name, value) == [name |-> name, value |-> value]

error_response(status, message) ==
    [status |-> status,
     headers |-> {Header("content-type", "application/json")},
     body |-> to_string(Obj("", <<Obj("error", <<Str("message", message),
                                                 Str("type", "guard_error")>>)>>))]

ChatMessage(role, content) == Obj("", <<content, Str("role", role)>>)

\* {"messages":[{"role":"user","content":"SECRET"}]}
ChatRequest ==
    Obj("", <<Arr("messages", <<ChatMessage("user", Str("content", "SECRET"))>>),
              Str("model", "m")>>)
\* two messages: the second is reached only if the first is not refused
ChatRequest2 ==
    Obj("", <<Arr("messages", <<ChatMessage("system", Str("content", "hello")),
                                ChatMessage("user", Str("content", "SECRET"))>>)>>)
\* content blocks: messages[].content[].text
BlockRequest ==
    Obj("", <<Arr("messages",
        <<ChatMessage("user",
            Arr("content", <<Obj("", <<Str("text", "SECRET"),
                                       Str("type", "text")>>)>>))>>)>>)
\* JSON with none of the chat fields
PromptRequest == Obj("", <<Str("model", "m"), Str("prompt", "SECRET")>>)

ReqBodies == {Raw(""), Raw("SECRET"), Json("compact", ChatRequest),
              Json("spaced", ChatRequest), Json("compact", ChatRequest2),
              Json("compact", BlockRequest), Json("compact", PromptRequest)}

\* {"choices":[{"message":{"role":"assistant","content":"SECRET"}}]}
ChatResponse ==
    Obj("", <<Arr("choices",
        <<Obj("", <<Num("index", "0"),
                    Obj("message", <<Str("content", "SECRET"),
                                     Str("role", "assistant")>>)>>)>>),
              Str("id", "c1")>>)

RespBodies == {Raw(""), Raw("SECRET"), Json("compact", ChatResponse)}

UpstreamStatuses == {200, 429}

ClientHeaders(body) ==
    {Header("host", "localhost:8080"), Header("authorization", "Bearer k"),
     Header("content-length", ToString(TextLen(body)))}

\* header sets an upstream can answer with, for a body
UpstreamHeaders(body) ==
    {{Header("content-type", "application/json"),
      Header("content-length", ToString(TextLen(body)))},
     {Header("content-type", "application/json"),
      Header("transfer-encoding", "chunked")}}

NoReq == [headers |-> {}, body |-> Raw("")]
NoResp == [status |-> 0, headers |-> {}, body |-> Raw("")]
NoUpstream == [status |-> 0, headers |-> {}, body |-> Raw(""), read |-> FALSE]

HttpIdle ==
    /\ httpPc = "idle"
    /\ httpNReq = 0
    /\ httpReq = NoReq
    /\ httpInCalls = <<>>
    /\ httpClean = Raw("")
    /\ httpUp = <<>>
    /\ httpResp = NoUpstream
    /\ httpOutCalls = <<>>
    /\ httpReply = NoResp

\* req.collect(): the full request is received (31-37)
HttpReceive ==
    /\ binary = "proxy"
    /\ httpPc \in {"idle", "done"}
    /\ httpNReq < MaxRequests
    /\ \E body \in ReqBodies :
          httpReq' = [headers |-> ClientHeaders(body), body |-> body]
    /\ httpNReq' = httpNReq + 1
    /\ httpPc' = "sanitize_in"
    /\ httpInCalls' = <<>>
    /\ httpClean' = Raw("")
    /\ httpUp' = <<>>
    /\ httpResp' = NoUpstream
    /\ httpOutCalls' = <<>>
    /\ httpReply' = NoResp
    /\ UNCHANGED <<binary, cliVars, mcpVars, ptyVars>>

\* status of the response to a refused request body (45)
InputErrorStatus == 400

\* sanitize the request body; an Err answers the client at once (40-52)
HttpSanitizeInput ==
    /\ binary = "proxy"
    /\ httpPc = "sanitize_in"
    /\ IF IsEmpty(httpReq.body)
       THEN /\ httpClean' = httpReq.body
            /\ httpPc' = "send"
            /\ UNCHANGED <<httpInCalls, httpReply>>
       ELSE \E orc \in [1..HttpNCalls(httpReq.body) -> Kinds] :
              LET r == sanitize_llm_request(httpReq.body, orc)
              IN  /\ httpInCalls' = r.calls
                  /\ IF r.ok
                     THEN /\ httpClean' = r.body
                          /\ httpPc' = "send"
                          /\ UNCHANGED httpReply
                     ELSE /\ httpReply' = error_response(InputErrorStatus,
                                                         "Input blocked: " \o r.err)
                          /\ httpPc' = "done"
                          /\ UNCHANGED httpClean
    /\ UNCHANGED <<binary, cliVars, mcpVars, ptyVars, httpNReq, httpReq, httpUp, httpResp,
                   httpOutCalls>>

\* headers copied to the upstream request: all but Host (61-65)
UpstreamRequestHeaders(headers) == {h \in headers : h.name # "host"}

\* upstream_req.body(sanitized_input).send(): the one upstream call; it fails, or
\* the response's status and headers arrive (58-79)
HttpSend ==
    /\ binary = "proxy"
    /\ httpPc = "send"
    /\ httpUp' = Append(httpUp, [headers |-> UpstreamRequestHeaders(httpReq.headers),
                                 body |-> httpClean])
    /\ \E ok \in BOOLEAN :
          IF ok
          THEN /\ \E status \in UpstreamStatuses, body \in RespBodies :
                  \E headers \in UpstreamHeaders(body) :
                     httpResp' = [status |-> status, headers |-> headers,
                                  body |-> body, read |-> FALSE]
               /\ httpPc' = "read_body"
               /\ UNCHANGED httpReply
          ELSE /\ httpReply' = error_response(502, "Upstream error: connect")
               /\ httpPc' = "done"
               /\ UNCHANGED httpResp
    /\ UNCHANGED <<binary, cliVars, mcpVars, ptyVars, httpNReq, httpReq, httpInCalls,
                   httpClean, httpOutCalls>>

\* upstream_resp.bytes(): the whole body is read, or the read fails (80-88)
HttpReadBody ==
    /\ binary = "proxy"
    /\ httpPc = "read_body"
    /\ \E ok \in BOOLEAN :
          IF ok
          THEN /\ httpResp' = [httpResp EXCEPT !.read = TRUE]
               /\ httpPc' = "sanitize_out"
               /\ UNCHANGED httpReply
          ELSE /\ httpReply' = error_response(502, "Response read error: reset")
               /\ httpPc' = "done"
               /\ UNCHANGED httpResp
    /\ UNCHANGED <<binary, cliVars, mcpVars, ptyVars, httpNReq, httpReq, httpInCalls,
                   httpClean, httpUp, httpOutCalls>>

\* status of the response when the upstream's body is refused (97)
OutputErrorStatus == 500

\* a variant that copies every header of the upstream's response
ResponseHeadersAll(headers) == headers

\* headers copied to the client's response (108-112)
ResponseHeaders(headers) ==
    {h \in headers : h.name # "content-length" /\ h.name # "transfer-encoding"}

\* the response built from the upstream's status and headers (107-116)
BuildResponse(resp, body) ==
    [status |-> resp.status, headers |-> ResponseHeaders(resp.headers), body |-> body]

\* sanitize the response body and answer the client (91-116)
HttpSanitizeOutput ==
    /\ binary = "proxy"
    /\ httpPc = "sanitize_out"
    /\ IF IsEmpty(httpResp.body)
       THEN /\ httpReply' = BuildResponse(httpResp, httpResp.body)
            /\ UNCHANGED httpOutCalls
       ELSE \E orc \in [1..HttpNCalls(httpResp.body) -> Kinds] :
              LET r == sanitize_llm_response(httpResp.body, orc)
              IN  /\ httpOutCalls' = r.calls
                  /\ httpReply' =
                        IF r.ok THEN BuildResponse(httpResp, r.body)
                        ELSE error_response(OutputErrorStatus,
                                            "Output blocked: " \o r.err)
    /\ httpPc' = "done"
    /\ UNCHANGED <<binary, cliVars, mcpVars, ptyVars, httpNReq, httpReq, httpInCalls,
                   httpClean, httpUp, httpResp>>

HttpNext ==
    \/ HttpReceive
    \/ HttpSanitizeInput
    \/ HttpSend
    \/ HttpReadBody
    \/ HttpSanitizeOutput

(***************************************************************************)
(* hanzo-guard, the one-shot text tool (main.rs 10-99).                    *)
(***************************************************************************)
\* a line of stdin that is not valid UTF-8: lines() yields Err for it
BadLine == "\\xff"

StdinLines == {"SECRET", "", BadLine}

\* --text <TEXT>: the argument, "" when it is missing (unwrap_or_default, 33)
TextArgs == {"SECRET", " ", ""}

\* --file <FILE>: no path given, a file that cannot be read, or the file's text
FileArgs == {[path |-> FALSE, ok |-> FALSE, text |-> ""],
             [path |-> TRUE, ok |-> FALSE, text |-> ""],
             [path |-> TRUE, ok |-> TRUE, text |-> "SECRET\n"],
             [path |-> TRUE, ok |-> TRUE, text |-> "\n"]}

NoArgs == [src |-> "none", json |-> FALSE, arg |-> ""]

\* exit code of a Rust process whose main thread panics (expect, 35-36)
PanicExit == 101

CliIdle ==
    /\ cliPc = "idle"
    /\ cliArgs = NoArgs
    /\ cliInput = ""
    /\ cliNLines = 0
    /\ cliCalls = <<>>
    /\ cliOut = <<>>
    /\ cliExit = 0

CliInit ==
    /\ cliPc = "args"
    /\ cliArgs = NoArgs
    /\ cliInput = ""
    /\ cliNLines = 0
    /\ cliCalls = <<>>
    /\ cliOut = <<>>
    /\ cliExit = 0

\* text.trim().is_empty() for the texts the tool can gather here (50)
RECURSIVE OnlyNewlines(_)
OnlyNewlines(n) == IF n = 0 THEN "" ELSE "\n" \o OnlyNewlines(n - 1)

TrimIsEmpty(text) ==
    text \in {" "} \cup {OnlyNewlines(n) : n \in 0..(MaxStdinLines + 1)}

\* args parsed; input from --text or --file (29-36).  A missing path or an
\* unreadable file panics.
CliArgsText ==
    /\ binary = "cli"
    /\ cliPc = "args"
    /\ \E json \in BOOLEAN, text \in TextArgs :
          /\ cliArgs' = [src |-> "text", json |-> json, arg |-> text]
          /\ cliInput' = text
    /\ cliPc' = "check"
    /\ UNCHANGED <<binary, mcpVars, ptyVars, httpVars, cliNLines, cliCalls, cliOut,
                   cliExit>>

CliArgsFile ==
    /\ binary = "cli"
    /\ cliPc = "args"
    /\ \E json \in BOOLEAN, file \in FileArgs :
          /\ cliArgs' = [src |-> "file", json |-> json, arg |-> file.text]
          /\ IF file.path /\ file.ok
             THEN /\ cliInput' = file.text
                  /\ cliPc' = "check"
                  /\ UNCHANGED cliExit
             ELSE /\ cliPc' = "exited"
                  /\ cliExit' = PanicExit
                  /\ UNCHANGED cliInput
    /\ UNCHANGED <<binary, mcpVars, ptyVars, httpVars, cliNLines, cliCalls, cliOut>>

\* neither --text nor --file: input is read from stdin (37-48)
CliArgsStdin ==
    /\ binary = "cli"
    /\ cliPc = "args"
    /\ \E json \in BOOLEAN : cliArgs' = [src |-> "stdin", json |-> json, arg |-> ""]
    /\ cliPc' = "stdin"
    /\ UNCHANGED <<binary, mcpVars, ptyVars, httpVars, cliInput, cliNLines, cliCalls,
                   cliOut, cliExit>>

\* one turn of the loop over stdin.lock().lines(): a line that is Ok is appended
\* with a newline, one that is Err is skipped (41-46)
CliStdinLine ==
    /\ binary = "cli"
    /\ cliPc = "stdin"
    /\ cliNLines < MaxStdinLines
    /\ \E line \in StdinLines :
          cliInput' = IF line = BadLine THEN cliInput ELSE cliInput \o line \o "\n"
    /\ cliNLines' = cliNLines + 1
    /\ UNCHANGED <<binary, mcpVars, ptyVars, httpVars, cliPc, cliArgs, cliCalls, cliOut,
                   cliExit>>

CliStdinEof ==
    /\ binary = "cli"
    /\ cliPc = "stdin"
    /\ cliPc' = "check"
    /\ UNCHANGED <<binary, mcpVars, ptyVars, httpVars, cliArgs, cliInput, cliNLines,
                   cliCalls, cliOut, cliExit>>

\* if input.trim().is_empty() { exit(1) } (50-53)
CliCheckEmpty ==
    /\ binary = "cli"
    /\ cliPc = "check"
    /\ IF TrimIsEmpty(cliInput)
       THEN cliPc' = "exited" /\ cliExit' = 1
       ELSE cliPc' = "sanitize" /\ UNCHANGED cliExit
    /\ UNCHANGED <<binary, mcpVars, ptyVars, httpVars, cliArgs, cliInput, cliNLines,
                   cliCalls, cliOut>>

\* the JSON printed with --json (63-78)
CliJson(o) ==
    Json("pretty",
         CASE o.kind = "Clean" -> Obj("", <<Str("status", "clean"), Str("text", o.text)>>)
           [] o.kind = "Redacted" ->
                Obj("", <<Num("redactions", "1"), Str("status", "redacted"),
                          Str("text", o.text)>>)
           [] OTHER -> Obj("", <<Str("reason", o.text), Str("status", "blocked")>>))

\* what the tool prints on stdout for an outcome (62-91)
CliPrinted(json, o) ==
    IF o.kind = "Err" THEN <<>>
    ELSE IF json THEN <<CliJson(o)>>
    ELSE IF o.kind = "Blocked" THEN <<>>
    ELSE <<Raw(o.text)>>

\* the exit code after the sanitizer's outcome: exit(2) for Blocked without
\* --json (88), exit(1) for Err (95), else main returns (98-99)
CliExitCode(json, o) ==
    IF o.kind = "Err" THEN 1
    ELSE IF ~json /\ o.kind = "Blocked" THEN 2
    ELSE 0

\* guard.sanitize_input(&input), then print and exit (60-99)
CliSanitize ==
    /\ binary = "cli"
    /\ cliPc = "sanitize"
    /\ \E kind \in Kinds :
          LET o == Gateway(cliInput, kind)
          IN  /\ cliCalls' = <<Call(<<>>, "input", cliInput, o)>>
              /\ cliOut' = CliPrinted(cliArgs.json, o)
              /\ cliExit' = CliExitCode(cliArgs.json, o)
    /\ cliPc' = "exited"
    /\ UNCHANGED <<binary, mcpVars, ptyVars, httpVars, cliArgs, cliInput, cliNLines>>

CliNext ==
    \/ CliArgsText
    \/ CliArgsFile
    \/ CliArgsStdin
    \/ CliStdinLine
    \/ CliStdinEof
    \/ CliCheckEmpty
    \/ CliSanitize

(***************************************************************************)
(* Specifications.                                                         *)
(***************************************************************************)
InitMcp == binary = "mcp" /\ McpInit /\ PtyIdle /\ HttpIdle /\ CliIdle

InitWrap == binary = "wrap" /\ McpIdle /\ PtyInit /\ HttpIdle /\ CliIdle

InitProxy == binary = "proxy" /\ McpIdle /\ PtyIdle /\ HttpIdle /\ CliIdle

InitCli == binary = "cli" /\ McpIdle /\ PtyIdle /\ HttpIdle /\ CliInit

Init == InitMcp \/ InitWrap \/ InitProxy \/ InitCli

Next == McpNext \/ PtyNext \/ HttpNext \/ CliNext

Spec == Init /\ [][Next]_vars

SpecMcp == InitMcp /\ [][McpNext]_vars

SpecWrap == InitWrap /\ [][PtyNext]_vars

\* guard-wrap observed from the moment its stdin channel is all but full
InitWrapBacklog == binary = "wrap" /\ McpIdle /\ PtyInitBacklog /\ HttpIdle /\ CliIdle

SpecWrapBacklog == InitWrapBacklog /\ [][PtyNext]_vars

SpecProxy == InitProxy /\ [][HttpNext]_vars

SpecCli == InitCli /\ [][CliNext]_vars
(***************************************************************************)
(* Fairness.  The adapters' own steps are taken when they can be: a thread *)
(* that can run runs, a sanitizer call returns.  What the environment does *)
(* (a chunk or a line arrives, stdin ends, the child exits on its own) is  *)
(* under no obligation, except that a pipe or PTY whose writer is gone     *)
(* reports end of stream, and that a wrapped server whose stdin is closed  *)
(* exits.                                                                  *)
(***************************************************************************)
McpChildExitOnEof == mcpPc["input"] = "done" /\ McpChildExit

FairSpecMcp ==
    /\ SpecMcp
    /\ WF_vars(McpEof("output"))
    /\ WF_vars(McpChildExitOnEof)
    /\ WF_vars(McpJoinIn)
    /\ WF_vars(McpJoinOut)
    /\ WF_vars(McpWaitChild)

FairSpecWrap ==
    /\ SpecWrap
    /\ \A d \in Dirs : WF_vars(PtySend(d))
    /\ WF_vars(PtyEof("output"))
    /\ WF_vars(PtySelect)
    /\ WF_vars(PtyFilter)
    /\ WF_vars(PtyWaitChild)

(***************************************************************************)
(* Vocabulary of the properties.                                           *)
(***************************************************************************)
RECURSIVE At(_, _), Put(_, _, _), StrLeaves(_, _), EraseAll(_, _, _)

\* the node at a path
At(v, path) == IF path = <<>> THEN v ELSE At(v.c[Head(path)], Tail(path))

\* v with the node at a path replaced
Put(v, path, x) ==
    IF path = <<>> THEN x ELSE [v EXCEPT !.c[Head(path)] = Put(@, Tail(path), x)]

\* paths of the string leaves of the subtree v, which sits at path
StrLeaves(v, path) ==
    IF v.k = "str" THEN {path}
    ELSE UNION {StrLeaves(v.c[i], Append(path, i)) : i \in 1..Len(v.c)}

\* v with the subtrees at roots[n..] emptied (their keys kept)
EraseAll(v, roots, n) ==
    IF n > Len(roots) THEN v
    ELSE EraseAll(Put(v, roots[n], Num(At(v, roots[n]).key, "")), roots, n + 1)

\* number of the gateway calls made for the string at a path
CallsAt(calls, path) == Cardinality({i \in 1..Len(calls) : calls[i].path = path})

\* where the documentation puts the payload of a JSON-RPC message: the field of
\* a recognized method, and result
McpPayloadRoots(msg) ==
    (IF MethodPath(msg) # <<>> THEN <<MethodPath(msg)>> ELSE <<>>)
      \o (IF Idx(msg, "result") # 0 THEN <<<<Idx(msg, "result")>>>> ELSE <<>>)

McpPayloadLeaves(msg) ==
    UNION {StrLeaves(At(msg, McpPayloadRoots(msg)[n]), McpPayloadRoots(msg)[n]) :
             n \in 1..Len(McpPayloadRoots(msg))}

Forwarded == mcpLast.out # <<>>

(***************************************************************************)
(* C1.  In every adapter, text that is written to the opposite side has    *)
(* passed through exactly one gateway call for its direction: a PTY chunk  *)
(* written, the payload strings of a JSON-RPC line forwarded (the whole    *)
(* line when it does not parse), the body sent upstream and the body       *)
(* returned to the client.                                                 *)
(***************************************************************************)
OneCall(calls, path, dir) ==
    /\ CallsAt(calls, path) = 1
    /\ \A i \in 1..Len(calls) : calls[i].dir = dir

\* an HTTP body: the whole text when it is not JSON, else the strings the
\* sanitizer reached
BodyOneCall(body, calls, dir) ==
    IF IsEmpty(body) THEN calls = <<>>
    ELSE IF ~Parses(body) THEN OneCall(calls, <<>>, dir)
    ELSE \A i \in 1..Len(calls) : OneCall(calls, calls[i].path, dir)

C1_ExactlyOneGatewayCall ==
    /\ ptyLast.out # <<>> => OneCall(ptyLast.calls, <<>>, ptyLast.dir)
    /\ Forwarded =>
          IF Parses(mcpLast.line)
          THEN \A p \in McpPayloadLeaves(mcpLast.line.v) :
                  OneCall(mcpLast.calls, p, mcpLast.dir)
          ELSE OneCall(mcpLast.calls, <<>>, mcpLast.dir)
    /\ httpUp # <<>> => BodyOneCall(httpReq.body, httpInCalls, "input")
    /\ (httpPc = "done" /\ httpReply.body = httpResp.body /\ httpResp.read)
          => BodyOneCall(httpResp.body, httpOutCalls, "output")

(***************************************************************************)
(* C2.  For a line whose method is tools/call, completion/complete or      *)
(* sampling/createMessage, every string under params.arguments,            *)
(* params.prompt or params.messages is passed to the gateway exactly once, *)
(* and every field outside that path and outside result has the same value *)
(* in the forwarded line.                                                  *)
(***************************************************************************)
C2_MethodPayloadOnce ==
    (mcpLast.dir # "none" /\ Parses(mcpLast.line)
       /\ MethodPath(mcpLast.line.v) # <<>>) =>
        LET msg == mcpLast.line.v
            mp == MethodPath(msg)
        IN  /\ \A p \in StrLeaves(At(msg, mp), mp) :
                  /\ CallsAt(mcpLast.calls, p) = 1
                  /\ \E i \in 1..Len(mcpLast.calls) :
                        /\ mcpLast.calls[i].path = p
                        /\ mcpLast.calls[i].text = At(msg, p).s
            /\ Forwarded =>
                  EraseAll(mcpLast.out[1].v, McpPayloadRoots(msg), 1)
                    = EraseAll(msg, McpPayloadRoots(msg), 1)

(***************************************************************************)
(* C5.  For a parseable line with a payload string at a documented         *)
(* position, the forwarded line is parseable and holds at that position    *)
(* the text the gateway returned for the string when the outcome is Clean  *)
(* or Redacted and "[BLOCKED]" when it is Blocked; all else is untouched.  *)
(* The outcome for a payload string is that of the call made with it.      *)
(***************************************************************************)
C5_PayloadReplacedInPlace ==
    (Forwarded /\ Parses(mcpLast.line)) =>
        LET msg == mcpLast.line.v
            out == mcpLast.out[1]
        IN  /\ Parses(out)
            /\ \A i \in 1..Len(mcpLast.calls) :
                  LET c == mcpLast.calls[i]
                  IN  (c.path \in McpPayloadLeaves(msg) /\ c.text = At(msg, c.path).s
                         /\ \A j \in 1..(i - 1) : mcpLast.calls[j].path # c.path) =>
                        /\ c.kind \in {"Clean", "Redacted"} => At(out.v, c.path).s = c.ret
                        /\ c.kind = "Blocked" => At(out.v, c.path).s = SENTINEL
            /\ EraseAll(out.v, McpPayloadRoots(msg), 1)
                 = EraseAll(msg, McpPayloadRoots(msg), 1)
(***************************************************************************)
(* C3.  No upstream call is started before the whole request body has been *)
(* sanitized, and what is sent is the sanitized body; when a gateway call  *)
(* made for the body returns Blocked or an error there is no upstream call *)
(* and the client receives a 4xx/5xx status (4xx for Blocked) with a JSON  *)
(* body that has a message field.                                          *)
(***************************************************************************)
Refused(calls) == \E i \in 1..Len(calls) : calls[i].kind \in {"Blocked", "Err"}

\* {"error":{"message":...,"type":...}} and nothing else
IsErrorBody(body) ==
    /\ Parses(body)
    /\ body.v.k = "obj"
    /\ Len(body.v.c) = 1
    /\ Idx(body.v, "error") = 1
    /\ Idx(body.v.c[1], "message") # 0
    /\ body.v.c[1].c[Idx(body.v.c[1], "message")].k = "str"

C3_RefusedRequestNeverSent ==
    /\ httpUp # <<>> =>
          /\ httpPc \notin {"idle", "sanitize_in"}
          /\ Len(httpUp) = 1
          /\ httpUp[1].body = httpClean
          /\ ~Refused(httpInCalls)
          /\ ~IsEmpty(httpReq.body) => Len(httpInCalls) = HttpNCalls(httpReq.body)
    /\ Refused(httpInCalls) =>
          /\ httpUp = <<>>
          /\ httpPc = "done"
          /\ httpReply.status \in 400..599
          /\ (\E i \in 1..Len(httpInCalls) : httpInCalls[i].kind = "Blocked")
                => httpReply.status \in 400..499
          /\ IsErrorBody(httpReply.body)

C3_Witness ==
    /\ httpPc = "done"
    /\ Parses(httpReq.body)
    /\ Len(httpInCalls) = 2
    /\ httpInCalls[1].kind = "Redacted"
    /\ httpInCalls[2].kind = "Blocked"
    /\ httpUp = <<>>
    /\ httpReply.status = 400

(***************************************************************************)
(* C4.  For every PTY chunk of either direction: when the outcome is       *)
(* Blocked nothing is handed to the opposite stream; when it is Clean(t)   *)
(* or Redacted(t) exactly t is handed to it, in one write.                 *)
(***************************************************************************)
Occurrences(seq, x) == Cardinality({i \in 1..Len(seq) : seq[i] = x})

C4_PtyWritesWhatGatewayReturned ==
    (ptyLast.dir # "none" /\ ptyLast.calls # <<>>) =>
        LET c == ptyLast.calls[1]
            n == Occurrences(ptyWrote[ptyLast.dir], ptyLast.id)
        IN  /\ Len(ptyLast.calls) = 1
            /\ c.text = ptyLast.text
            /\ c.kind = "Blocked" => (ptyLast.out = <<>> /\ n = 0)
            /\ c.kind \in {"Clean", "Redacted"} =>
                  /\ ptyLast.out = (IF c.ret = "" THEN <<>> ELSE <<c.ret>>)
                  /\ n = (IF c.ret = "" \/ ptyLast.failed THEN 0 ELSE 1)

C4_Witness ==
    /\ ptyLast.dir = "output"
    /\ ptyLast.id = 2
    /\ ptyLast.calls # <<>>
    /\ ptyLast.calls[1].kind = "Blocked"
    /\ ptyLast.out = <<>>
    /\ ptyWrote["output"] = <<1>>

(***************************************************************************)
(* C6.  As the documentation has it: a JSON-RPC line and an HTTP body that *)
(* do not parse as JSON reach the opposite side byte-identical to the      *)
(* input, whatever the sanitizer would say of the text.                    *)
(***************************************************************************)
RequestSanitized == httpPc \in {"send", "read_body", "sanitize_out", "done"}

C6_UnparsedForwardedIdentical ==
    /\ (Forwarded /\ ~Parses(mcpLast.line)) => mcpLast.out[1] = mcpLast.line
    /\ (RequestSanitized /\ ~Parses(httpReq.body)) =>
          /\ httpClean = httpReq.body
          /\ httpPc = "done" => httpUp # <<>>
    /\ (httpPc = "done" /\ httpResp.read /\ ~Parses(httpResp.body)) =>
          /\ httpReply.status = httpResp.status
          /\ httpReply.body = httpResp.body

(***************************************************************************)
(* C6, as the code has it.  A JSON-RPC line that does not parse is         *)
(* forwarded byte-identical, with no gateway call.  An HTTP body that does *)
(* not parse is passed whole to the gateway in one call: on Clean or       *)
(* Redacted the returned text is forwarded in its place, on Blocked or an  *)
(* error nothing is forwarded and the client receives a JSON error (400    *)
(* for a request body, 500 for a response body).  Only an empty body is    *)
(* forwarded as it is, without a call.                                     *)
(***************************************************************************)
WholeBodyCall(calls, body, dir) ==
    /\ Len(calls) = 1
    /\ calls[1].path = <<>>
    /\ calls[1].dir = dir
    /\ calls[1].text = body.v.s

C6_UnparsedLineIdenticalBodySanitized ==
    /\ (Forwarded /\ ~Parses(mcpLast.line)) =>
          (mcpLast.out[1] = mcpLast.line /\ mcpLast.calls = <<>>)
    /\ (RequestSanitized /\ ~Parses(httpReq.body)) =>
          IF IsEmpty(httpReq.body)
          THEN httpInCalls = <<>> /\ httpClean = httpReq.body
          ELSE /\ WholeBodyCall(httpInCalls, httpReq.body, "input")
               /\ IF Refused(httpInCalls)
                  THEN /\ httpUp = <<>>
                       /\ httpReply.status = 400
                       /\ IsErrorBody(httpReply.body)
                  ELSE /\ httpClean = Raw(httpInCalls[1].ret)
                       /\ httpUp # <<>> => httpUp[1].body = httpClean
    /\ (httpPc = "done" /\ httpResp.read /\ ~Parses(httpResp.body)) =>
          IF IsEmpty(httpResp.body)
          THEN httpOutCalls = <<>> /\ httpReply.body = httpResp.body
          ELSE /\ WholeBodyCall(httpOutCalls, httpResp.body, "output")
               /\ IF Refused(httpOutCalls)
                  THEN httpReply.status = 500 /\ IsErrorBody(httpReply.body)
                  ELSE httpReply.body = Raw(httpOutCalls[1].ret)

C6_Witness ==
    /\ ~Parses(httpReq.body)
    /\ ~IsEmpty(httpReq.body)
    /\ Len(httpInCalls) = 1
    /\ httpInCalls[1].kind = "Redacted"
    /\ httpUp # <<>>
    /\ httpUp[1].body = Raw(Mask(httpReq.body.v.s))
    /\ httpUp[1].body # httpReq.body

RECURSIVE ApplyCalls(_, _, _)

\* a JSON value with the text each call returned put at the call's position
ApplyCalls(v, calls, n) ==
    IF n > Len(calls) THEN v
    ELSE ApplyCalls(Put(v, calls[n].path, Str(At(v, calls[n].path).key, calls[n].ret)),
                    calls, n + 1)

Sanitized(body, calls) ==
    IF IsEmpty(body) THEN body
    ELSE IF Parses(body) THEN to_string(ApplyCalls(body.v, calls, 1))
    ELSE Raw(calls[1].ret)

Relayed ==
    IF Refused(httpOutCalls)
    THEN /\ httpReply.status \in 500..599
         /\ IsErrorBody(httpReply.body)
    ELSE /\ httpReply.status = httpResp.status
         /\ httpReply.headers =
               {h \in httpResp.headers :
                  h.name \notin {"content-length", "transfer-encoding"}}
         /\ httpReply.body = Sanitized(httpResp.body, httpOutCalls)

UpstreamAnswered == httpUp # <<>> /\ httpResp.status # 0

C8_UpstreamResponseRelayed ==
    (httpPc = "done" /\ UpstreamAnswered) => Relayed

(***************************************************************************)
(* C8, as the code has it.  The same, for a request whose upstream         *)
(* response body was read in full; when reading the body fails the client  *)
(* receives a 502 JSON error, whatever the upstream's status.              *)
(***************************************************************************)
C8_ReadResponseRelayed ==
    (httpPc = "done" /\ UpstreamAnswered) =>
        IF httpResp.read THEN Relayed
        ELSE /\ httpReply.status = 502
             /\ IsErrorBody(httpReply.body)
             /\ httpOutCalls = <<>>

C8_Witness ==
    /\ httpPc = "done"
    /\ httpResp.read
    /\ httpResp.status = 429
    /\ Header("content-length", ToString(TextLen(httpResp.body))) \in httpResp.headers
    /\ Parses(httpResp.body)
    /\ Len(httpOutCalls) = 1
    /\ httpOutCalls[1].kind = "Redacted"
    /\ httpReply.status = 429
    /\ httpReply.body # httpResp.body
    /\ httpReply.headers # httpResp.headers

(***************************************************************************)
(* C9.  The PTY adapter terminates when the child exits or stdin reaches   *)
(* end of stream: once the child has terminated, or stdin has reached EOF, *)
(* the adapter eventually leaves its event loop and exits, with no further *)
(* event from outside.                                                     *)
(***************************************************************************)
C9_PtyTerminates ==
    (binary = "wrap" /\ (ptyChild.state = "exited" \/ ptyRd["input"] = "done"))
        ~> (ptyEv = "exited")

(***************************************************************************)
(* C10.  The JSON-RPC adapter terminates when the child exits or stdin     *)
(* reaches end of stream: once the child has exited, or the stdin loop has *)
(* ended, the adapter process eventually exits, with no further line.      *)
(***************************************************************************)
C10_McpTerminates ==
    (binary = "mcp" /\ (mcpChild.state = "exited" \/ mcpPc["input"] = "done"))
        ~> (mcpMain = "exited")
(***************************************************************************)
(* C11.  Within each direction of the PTY adapter, under every             *)
(* interleaving of the reader threads and the event loop, chunks are       *)
(* written in the order they were read: the chunks still on their way      *)
(* (taken by the event loop, queued, held by the reader) are the last ones *)
(* read, in order, all later than every chunk written; and each chunk the  *)
(* event loop finishes is appended to what its direction has written       *)
(* unless it was blocked (or its write failed), leaving the other          *)
(* direction as it was.                                                    *)
(***************************************************************************)
Ids(q) == [i \in 1..Len(q) |-> q[i].id]

\* ids of the chunks of a direction that are read and not yet filtered, oldest first
Pending(d) ==
    (IF ptyCur.dir = d THEN <<ptyCur.id>> ELSE <<>>)
      \o Ids(ptyQ[d])
      \o (IF ptyRd[d] = "send" THEN <<ptyHeld[d].id>> ELSE <<>>)

PtyOrdered(d) ==
    LET p == Pending(d)
        w == ptyWrote[d]
    IN  /\ \A i \in 1..Len(p) : p[i] = ptyNRead[d] - Len(p) + i
        /\ \A i \in 1..Len(w) : w[i] \in 1..(ptyNRead[d] - Len(p))
        /\ \A i, j \in 1..Len(w) : i < j => w[i] < w[j]

NotBlocked(e) == e.calls = <<>> \/ e.calls[1].kind # "Blocked"

C11_PtyOrderPreserved ==
    [][ /\ \A d \in Dirs : PtyOrdered(d)'
        /\ IF ptyLast' # ptyLast
           THEN \A d \in Dirs :
                  ptyWrote'[d] =
                     IF d = ptyLast'.dir /\ NotBlocked(ptyLast') /\ ~ptyLast'.failed
                     THEN Append(ptyWrote[d], ptyLast'.id)
                     ELSE ptyWrote[d]
           ELSE ptyWrote' = ptyWrote
      ]_vars

C11_Witness ==
    /\ ptyLast.dir = "input"
    /\ ptyLast.id = 2
    /\ ptyWrote["input"] = <<1, 2>>
    /\ ptyNRead["input"] = 2
(***************************************************************************)
(* C12.  In each direction of the JSON-RPC adapter every line read from    *)
(* the source yields exactly one line written to the sink, in the order    *)
(* read: none is dropped, duplicated or reordered, whatever its content.   *)
(* Stated for the time both peers are there to be written to (the child    *)
(* runs, the adapter's stdout is open), so that no write can fail.         *)
(***************************************************************************)
C12_EveryLineForwardedInOrder ==
    (binary = "mcp" /\ mcpChild.state = "running" /\ mcpOutOpen) =>
        \A d \in Dirs : mcpSink[d] = [i \in 1..mcpNRead[d] |-> i]
(***************************************************************************)
(* C13.  The one-shot text tool exits with 0 when the sanitizer's outcome  *)
(* is Clean or Redacted, 2 when it is Blocked, and 1 when the sanitizer    *)
(* returns an error or the input is empty, for every input source and with *)
(* or without --json.                                                      *)
(***************************************************************************)
C13_CliExitCodes ==
    (cliPc = "exited" /\ cliExit # PanicExit) =>
        IF cliCalls = <<>> THEN TrimIsEmpty(cliInput) /\ cliExit = 1
        ELSE /\ cliCalls[1].kind \in {"Clean", "Redacted"} => cliExit = 0
             /\ cliCalls[1].kind = "Blocked" => cliExit = 2
             /\ cliCalls[1].kind = "Err" => cliExit = 1
(***************************************************************************)
(* C14.  When the PTY wrapper or the JSON-RPC wrapper exits after its      *)
(* child has terminated, its exit code is the child's exit code, and a     *)
(* non-zero code when the child terminated abnormally (by a signal, with   *)
(* no exit code).                                                          *)
(***************************************************************************)
MirrorsChild(code, child) ==
    /\ child.state = "exited"
    /\ IF child.signaled THEN code # 0 ELSE code = child.code

C14_ExitCodeMirrorsChild ==
    /\ (binary = "wrap" /\ ptyEv = "exited") => MirrorsChild(ptyExit, ptyChild)
    /\ (binary = "mcp" /\ mcpMain = "exited") => MirrorsChild(mcpExit, mcpChild)
(***************************************************************************)
(* C15.  Idempotence: when every gateway call made for a parseable line or *)
(* body returns Clean with the text it was given, what the JSON-RPC        *)
(* adapter forwards and what the HTTP adapter forwards (the request body   *)
(* upstream, the response body to the client) parses to the value the      *)
(* input parses to.                                                        *)
(***************************************************************************)
AllCleanSame(calls) ==
    \A i \in 1..Len(calls) : calls[i].kind = "Clean" /\ calls[i].ret = calls[i].text

SameValue(out, in) == Parses(out) /\ out.v = in.v

C15_CleanRoundTrip ==
    /\ (Forwarded /\ Parses(mcpLast.line) /\ AllCleanSame(mcpLast.calls))
          => SameValue(mcpLast.out[1], mcpLast.line)
    /\ (httpUp # <<>> /\ Parses(httpReq.body) /\ AllCleanSame(httpInCalls))
          => SameValue(httpUp[1].body, httpReq.body)
    /\ (httpPc = "done" /\ httpResp.read /\ Parses(httpResp.body)
          /\ AllCleanSame(httpOutCalls))
          => /\ httpReply.status = httpResp.status
             /\ SameValue(httpReply.body, httpResp.body)

C15_Witness ==
    /\ httpUp # <<>>
    /\ httpReq.body = Json("spaced", ChatRequest)
    /\ Len(httpInCalls) = 1
    /\ AllCleanSame(httpInCalls)
    /\ httpUp[1].body = Json("compact", ChatRequest)
(***************************************************************************)
(* C16.  For every HTTP body that is not empty: when it parses as a chat-  *)
(* completion payload (a top-level messages array, or choices), exactly    *)
(* the content/text strings reachable via messages, choices, message and   *)
(* delta are passed to the gateway; every other body (not JSON, or JSON    *)
(* without that structure) is passed whole to the gateway in one direct    *)
(* call.                                                                   *)
(***************************************************************************)
RECURSIVE ChatLeaves(_, _)

\* paths of the content/text strings reachable via messages, choices, message, delta
ChatLeaves(v, path) ==
    IF v.k = "arr"
    THEN UNION {ChatLeaves(v.c[i], Append(path, i)) : i \in 1..Len(v.c)}
    ELSE IF v.k = "obj"
    THEN UNION {LET x == v.c[i]
                    p == Append(path, i)
                IN  IF x.key \in {"content", "text"} /\ x.k = "str" THEN {p}
                    ELSE IF x.key = "content" /\ x.k = "arr" THEN ChatLeaves(x, p)
                    ELSE IF x.key \in {"messages", "choices", "message", "delta"}
                    THEN ChatLeaves(x, p)
                    ELSE {} : i \in 1..Len(v.c)}
    ELSE {}

IsChatPayload(body) ==
    /\ Parses(body)
    /\ body.v.k = "obj"
    /\ \/ (Idx(body.v, "messages") # 0 /\ body.v.c[Idx(body.v, "messages")].k = "arr")
       \/ Idx(body.v, "choices") # 0

CallPaths(calls) == {calls[i].path : i \in 1..Len(calls)}

BodyLocated(body, calls, dir) ==
    IF IsChatPayload(body)
    THEN /\ CallPaths(calls) \subseteq ChatLeaves(body.v, <<>>)
         /\ ~Refused(calls) => CallPaths(calls) = ChatLeaves(body.v, <<>>)
         /\ \A i \in 1..Len(calls) : calls[i].dir = dir
    ELSE /\ Len(calls) = 1
         /\ calls[1].path = <<>>
         /\ calls[1].dir = dir

C16_ChatFieldsOrWholeBody ==
    /\ (RequestSanitized /\ ~IsEmpty(httpReq.body))
          => BodyLocated(httpReq.body, httpInCalls, "input")
    /\ (httpPc = "done" /\ httpResp.read /\ ~IsEmpty(httpResp.body))
          => BodyLocated(httpResp.body, httpOutCalls, "output")
(***************************************************************************)
(* C17.  Every gateway call made for a payload travelling toward the       *)
(* wrapped process or the upstream (keyboard chunk, stdin line, request    *)
(* body) uses the input entry point, every call for a payload travelling   *)
(* back (PTY output chunk, child stdout line, response body) the output    *)
(* entry point; no payload is passed to both.                              *)
(***************************************************************************)
AllCallsUse(calls, dir) == \A i \in 1..Len(calls) : calls[i].dir = dir

C17_EntryPointMatchesDirection ==
    /\ AllCallsUse(ptyLast.calls, ptyLast.dir)
    /\ AllCallsUse(mcpLast.calls, mcpLast.dir)
    /\ AllCallsUse(httpInCalls, "input")
    /\ AllCallsUse(httpOutCalls, "output")

C17_Witness ==
    /\ httpPc = "done"
    /\ Len(httpInCalls) = 2
    /\ Len(httpOutCalls) = 1
    /\ httpInCalls[1].dir = "input"
    /\ httpOutCalls[1].dir = "output"
    /\ httpOutCalls[1].kind = "Clean"
(***************************************************************************)
(* C18.  In the PTY adapter the keyboard and screen pipelines are          *)
(* independent: while the sanitizer call for a chunk of one direction has  *)
(* not returned, a chunk of the other direction that waits in its channel  *)
(* can be taken by the event loop to be sanitized and written.             *)
(***************************************************************************)
C18_PipelinesIndependent ==
    \A d \in Dirs :
        (PtyLive /\ ptyEv = "filter" /\ ptyCur.dir # d /\ ptyQ[d] # <<>>)
            => ENABLED PtySelect
(***************************************************************************)
(* C19.  For every parseable JSON-RPC line: when its method is none of     *)
(* tools/call, completion/complete and sampling/createMessage, no gateway  *)
(* call is made for anything under params and params is forwarded with     *)
(* the same value; and, whatever the method, when the line has a result    *)
(* field, the calls made under result and the result forwarded are those   *)
(* of filter_value applied to it with the direction of the reading loop.   *)
(***************************************************************************)
RecognizedMethods == {"tools/call", "completion/complete", "sampling/createMessage"}

\* the calls made for strings at or below the top-level field number n
CallsUnder(calls, n) == SelectSeq(calls, LAMBDA c : c.path # <<>> /\ c.path[1] = n)

C19_UnknownMethodAndResult ==
    (mcpLast.dir # "none" /\ Parses(mcpLast.line)) =>
        LET msg == mcpLast.line.v
            pi == Idx(msg, "params")
            ri == Idx(msg, "result")
            rcalls == CallsUnder(mcpLast.calls, ri)
            orc == [i \in 1..Len(rcalls) |-> rcalls[i].kind]
        IN  /\ (MethodOf(msg) \notin RecognizedMethods /\ pi # 0) =>
                  /\ CallsUnder(mcpLast.calls, pi) = <<>>
                  /\ Forwarded => At(mcpLast.out[1].v, <<pi>>) = At(msg, <<pi>>)
            /\ ri # 0 =>
                  LET r == filter_value(msg.c[ri], <<ri>>, mcpLast.dir, orc, NoCalls)
                  IN  /\ rcalls = r.st.calls
                      /\ \A i \in 1..Len(rcalls) : rcalls[i].dir = mcpLast.dir
                      /\ Forwarded => At(mcpLast.out[1].v, <<ri>>) = r.v

\* an output-loop line with an unknown method and a result whose string the
\* gateway redacted has been forwarded
C19_Witness ==
    /\ mcpLast.dir = "output"
    /\ mcpLast.line.v = PingResult
    /\ Forwarded
    /\ Len(mcpLast.calls) = 1
    /\ mcpLast.calls[1].kind = "Redacted"
(***************************************************************************)
(* C20.  The traversals filter_value and sanitize_json_messages change     *)
(* only the values of string leaves: whatever the gateway answers, the     *)
(* line or body that is forwarded has the arrays (length and order), the   *)
(* object keys and the number, boolean and null values of the input.       *)
(***************************************************************************)
RECURSIVE Shape(_)

\* v with the text of every string leaf blanked
Shape(v) ==
    IF v.k = "str" THEN [v EXCEPT !.s = ""]
    ELSE [v EXCEPT !.c = [i \in 1..Len(v.c) |-> Shape(v.c[i])]]

SameShape(out, in) == Parses(out) /\ Shape(out.v) = Shape(in.v)

C20_OnlyStringLeavesChange ==
    /\ (Forwarded /\ Parses(mcpLast.line))
          => SameShape(mcpLast.out[1], mcpLast.line)
    /\ (httpUp # <<>> /\ Parses(httpReq.body))
          => SameShape(httpUp[1].body, httpReq.body)
    /\ (httpPc = "done" /\ httpResp.read /\ Parses(httpResp.body)
          /\ ~Refused(httpOutCalls))
          => SameShape(httpReply.body, httpResp.body)

\* a tool result with arrays, objects and a boolean has been forwarded with a
\* string leaf rewritten
C20_Witness ==
    /\ Forwarded
    /\ mcpLast.line.v = ToolResult
    /\ mcpLast.out[1].v # ToolResult
    /\ \E i \in 1..Len(mcpLast.calls) : mcpLast.calls[i].kind = "Blocked"
(***************************************************************************)
(* C21.  Nothing is retried: within the handling of one chunk, line or     *)
(* body, a gateway call that returned an error is not followed by another  *)
(* call for the same payload (the same string at the same position); each  *)
(* client request causes at most one upstream call, and when the upstream  *)
(* send or the read of the upstream body fails the client gets a 502.      *)
(***************************************************************************)
NoReissue(calls) ==
    \A i, j \in 1..Len(calls) :
        (i < j /\ calls[i].kind = "Err") =>
            ~(calls[j].path = calls[i].path /\ calls[j].text = calls[i].text)

UpstreamFailed == httpPc = "done" /\ httpUp # <<>> /\ ~httpResp.read

C21_NothingRetried ==
    /\ NoReissue(mcpLast.calls)
    /\ NoReissue(ptyLast.calls)
    /\ NoReissue(httpInCalls)
    /\ NoReissue(httpOutCalls)
    /\ Len(httpUp) <= 1
    /\ UpstreamFailed => httpReply.status = 502
(***************************************************************************)
(* C22.  Each channel of the PTY adapter holds at most 100 chunks.  A      *)
(* reader thread whose channel is full keeps its chunk and waits; a send   *)
(* appends the chunk at the tail and nothing else adds to the channel; and *)
(* the channel loses a chunk only when the event loop receives its head,   *)
(* so every chunk sent is received once, in the order of sending.          *)
(***************************************************************************)
\* the reader thread of d is in blocking_send and its channel has no room
SenderBlocked(d) == ptyRd[d] = "send" /\ Len(ptyQ[d]) = ChannelCapacity

\* this step completes the send of the chunk the reader thread of d holds
Sent(d) == ptyRd[d] = "send" /\ ptyRd'[d] # "send"

\* this step is the event loop receiving a chunk of d
Received(d) == ptyCur' # ptyCur /\ ptyCur'.dir = d

C22_ChannelBoundedFifo ==
    [][ \A d \in Dirs :
          /\ Len(ptyQ'[d]) <= ChannelCapacity
          /\ SenderBlocked(d) => (ptyRd'[d] = "send" /\ ptyHeld'[d] = ptyHeld[d])
          /\ Sent(d) => ptyQ'[d] = Append(ptyQ[d], ptyHeld[d])
          /\ Received(d) =>
                /\ ptyQ[d] # <<>>
                /\ [id |-> ptyCur'.id, text |-> ptyCur'.text] = Head(ptyQ[d])
                /\ ptyQ'[d] = Tail(ptyQ[d])
          /\ (~Sent(d) /\ ~Received(d)) => ptyQ'[d] = ptyQ[d]
      ]_vars

\* the stdin channel is full and the stdin thread waits with the next chunk
C22_Witness ==
    /\ SenderBlocked("input")
    /\ ptyHeld["input"].id = ChannelCapacity + 1
    /\ Ids(ptyQ["input"]) = [i \in 1..ChannelCapacity |-> i]
(***************************************************************************)
(* C23.  In every request the HTTP adapter sends upstream, a               *)
(* Content-Length header among the headers sent has the length of the      *)
(* sanitized body that is sent with them.                                  *)
(***************************************************************************)
C23_ContentLengthMatchesBody ==
    \A n \in 1..Len(httpUp) :
        \A h \in httpUp[n].headers :
            h.name = "content-length" => h.value = ToString(TextLen(httpUp[n].body))
(***************************************************************************)
(* C24.  The JSON-RPC adapter exits only after both line loops have ended  *)
(* and the child has been waited for, and at exit every line read from the *)
(* child's stdout has been written to the adapter's stdout, in order,      *)
(* unless writing to stdout failed.                                        *)
(***************************************************************************)
C24_NoExitBeforeOutputForwarded ==
    (binary = "mcp" /\ mcpMain = "exited") =>
        /\ \A d \in Dirs : mcpPc[d] = "done"
        /\ mcpChild.state = "exited"
        /\ mcpOutOpen =>
              mcpSink["output"] = [i \in 1..mcpNRead["output"] |-> i]
(***************************************************************************)
(* C25.  In the JSON-RPC adapter a line that parses as JSON and whose top  *)
(* level is not an object (an array batch, a bare string) causes no        *)
(* gateway call and, when it is forwarded, is forwarded with the same      *)
(* value.                                                                  *)
(***************************************************************************)
TopLevelNotObject(line) == Parses(line) /\ line.v.k # "obj"

C25_NonObjectLineUntouched ==
    (mcpLast.dir # "none" /\ TopLevelNotObject(mcpLast.line)) =>
        /\ mcpLast.calls = <<>>
        /\ Forwarded => SameValue(mcpLast.out[1], mcpLast.line)

\* a batch holding a tools/call request has been forwarded to the server
C25_Witness ==
    /\ mcpLast.dir = "input"
    /\ mcpLast.line = Json("compact", Batch)
    /\ Forwarded
    /\ mcpLast.out[1].v = Batch
=============================================================================
